---------------------------- MODULE Spec2Model ----------------------------
(***************************************************************************)
(* Circuit-Simulator (project2.py): the canvas model (components, wires),  *)
(* the pin snapper and NetlistGenerator.generate_netlist.                  *)
(*                                                                         *)
(* A QPoint is the pair <<x, y>>.  A component is <<kind, pos>>, a wire is  *)
(* <<a, b>>.  Python dicts that are iterated (nodes, wire_adj) are kept as  *)
(* sequences of <<key, value>> in insertion order; merge, which is only     *)
(* looked up, is a function.                                                *)
(***************************************************************************)
EXTENDS Integers, Sequences, FiniteSets, TLC

VARIABLES
    components,     \* CircuitCanvas.components
    lines,          \* CircuitCanvas.lines
    nodes,          \* NetlistGenerator.nodes
    next_node_num,  \* NetlistGenerator.next_node_num
    all_pins,       \* NetlistGenerator.all_pins
    ground_keys,    \* NetlistGenerator.ground_keys
    wire_adj,       \* generate_netlist's local wire_adj, as the last call left it
    groups,         \* generate_netlist's local groups, as the last call left it
    merge,          \* generate_netlist's local merge, as the last call left it
    values,         \* the argument of the last generate_netlist call
    result,         \* what the last generate_netlist call returned or raised
    netlist_file,   \* temp_circuit.net: <<>> until written, then <<its text>>
    hover_pos,      \* mouseMoveEvent's adjusted_pos at the last hover highlight
    _hover_pin,     \* CircuitCanvas._hover_pin
    edits,          \* number of canvas edits made so far
    calls           \* number of generate_netlist calls made so far

vars == <<components, lines, nodes, next_node_num, all_pins, ground_keys,
          wire_adj, groups, merge, values, result, netlist_file, hover_pos,
          _hover_pin, edits, calls>>

----------------------------------------------------------------------------
(* Program constants *)

grid_size == 20
snap_threshold == 50
PinOffset == 30
MeterPinOffset == 40

\* Python's None, for a point and for a node id
None == <<>>
NoNode == -1

TwoTerminal == {"resistor", "battery", "capacitor", "inductor"}
Meters == {"voltmeter", "ammeter"}
Kinds == TwoTerminal \cup Meters \cup {"ground"}

----------------------------------------------------------------------------
(* Small helpers *)

Abs(n) == IF n < 0 THEN 0 - n ELSE n
Min(S) == CHOOSE m \in S : \A n \in S : m <= n
Last(s) == s[Len(s)]
Front(s) == SubSeq(s, 1, Len(s) - 1)
Range(s) == {s[i] : i \in 1..Len(s)}

RECURSIVE SortedSeq(_)
\* the elements of a finite set of integers, ascending
SortedSeq(S) ==
    IF S = {} THEN <<>> ELSE LET m == Min(S) IN <<m>> \o SortedSeq(S \ {m})

RECURSIVE Flatten(_)
Flatten(ss) == IF ss = <<>> THEN <<>> ELSE Head(ss) \o Flatten(Tail(ss))

RECURSIVE Join(_)
\* "\n".join(strs)
Join(strs) ==
    IF strs = <<>> THEN ""
    ELSE IF Len(strs) = 1 THEN strs[1]
    ELSE strs[1] \o "\n" \o Join(Tail(strs))

\* bool(QPoint): a null point (0, 0) is falsy, like None
Truthy(p) == p # None /\ p # <<0, 0>>

----------------------------------------------------------------------------
(* CircuitCanvas: pin geometry and the pin snapper *)

get_component_pins(comp, pos) ==
    IF comp \in TwoTerminal
    THEN << <<pos[1] - PinOffset, pos[2]>>, <<pos[1] + PinOffset, pos[2]>> >>
    ELSE IF comp \in Meters
    THEN << <<pos[1] - MeterPinOffset, pos[2]>>, <<pos[1] + MeterPinOffset, pos[2]>> >>
    ELSE IF comp = "ground" THEN << pos >>
    ELSE <<>>

manhattanLength(p, q) == Abs(p[1] - q[1]) + Abs(p[2] - q[2])

\* the points find_nearest_pin iterates over, in its iteration order
SnapCandidates(comps, wires) ==
    Flatten([i \in 1..Len(comps) |-> get_component_pins(comps[i][1], comps[i][2])])
    \o Flatten([i \in 1..Len(wires) |-> << wires[i][1], wires[i][2] >>])

RECURSIVE NearestLoop_SkipSelf(_, _, _, _, _)
\* the loops passing over a candidate at distance 0
NearestLoop_SkipSelf(cand, i, point, best, bestd) ==
    IF i > Len(cand) THEN best
    ELSE LET dist == manhattanLength(cand[i], point) IN
         IF dist > 0 /\ dist < snap_threshold /\ (best = None \/ dist < bestd)
         THEN NearestLoop_SkipSelf(cand, i + 1, point, cand[i], dist)
         ELSE NearestLoop_SkipSelf(cand, i + 1, point, best, bestd)

RECURSIVE NearestLoop_LastTie(_, _, _, _, _)
\* the loops with `dist <= nearest_dist`: the last of equally near candidates
NearestLoop_LastTie(cand, i, point, best, bestd) ==
    IF i > Len(cand) THEN best
    ELSE LET dist == manhattanLength(cand[i], point) IN
         IF dist < snap_threshold /\ (best = None \/ dist <= bestd)
         THEN NearestLoop_LastTie(cand, i + 1, point, cand[i], dist)
         ELSE NearestLoop_LastTie(cand, i + 1, point, best, bestd)

RECURSIVE NearestLoop(_, _, _, _, _)
\* the two loops of find_nearest_pin over cand[i..]; best is nearest_pin,
\* bestd is nearest_dist (unused while best is None, where the code has inf)
NearestLoop(cand, i, point, best, bestd) ==
    IF i > Len(cand) THEN best
    ELSE LET dist == manhattanLength(cand[i], point) IN
         IF dist < snap_threshold /\ (best = None \/ dist < bestd)
         THEN NearestLoop(cand, i + 1, point, cand[i], dist)
         ELSE NearestLoop(cand, i + 1, point, best, bestd)

\* find_nearest_pin over the candidate list cand
NearestPin(cand, point) == NearestLoop(cand, 1, point, None, 0)

find_nearest_pin(comps, wires, point) ==
    NearestPin(SnapCandidates(comps, wires), point)

----------------------------------------------------------------------------
(* NetlistGenerator *)

\* `for (x, y), nid in self.nodes.items(): if close: return nid`, else None
ScanNodes(nds, key) ==
    LET hits == {i \in 1..Len(nds) :
                    /\ Abs(nds[i][1][1] - key[1]) < grid_size
                    /\ Abs(nds[i][1][2] - key[2]) < grid_size}
    IN IF hits = {} THEN NoNode ELSE nds[Min(hits)][2]

\* self.nodes[key] = nid
DictSet(nds, key, nid) ==
    IF \E i \in 1..Len(nds) : nds[i][1] = key
    THEN [i \in 1..Len(nds) |-> IF nds[i][1] = key THEN <<key, nid>> ELSE nds[i]]
    ELSE Append(nds, <<key, nid>>)

\* the canonical key _get_node computes for point; cand is the candidate list
\* self.canvas.find_nearest_pin iterates over
NodeKey(cand, point) ==
    LET snap == NearestPin(cand, point)
    IN IF Truthy(snap) THEN snap ELSE point

\* _get_node: the id returned, and nodes / next_node_num as the call leaves them
_get_node(cand, gkeys, nds, nnn, point, is_new_pin) ==
    LET key == NodeKey(cand, point)
        found == ScanNodes(nds, key)
    IN IF key \in gkeys
       THEN [id |-> 0, nodes |-> nds, next_node_num |-> nnn]
       ELSE IF found # NoNode
       THEN [id |-> found, nodes |-> nds, next_node_num |-> nnn]
       ELSE IF is_new_pin
       THEN [id |-> nnn, nodes |-> DictSet(nds, key, nnn), next_node_num |-> nnn + 1]
       ELSE [id |-> NoNode, nodes |-> nds, next_node_num |-> nnn]

\* a lookup-only call: _get_node(point)
Lookup(cand, gkeys, nds, nnn, point) ==
    _get_node(cand, gkeys, nds, nnn, point, FALSE).id

\* _collect_all_pins without its loop over the wires
_collect_all_pins_NoWireEnds(pins0, gkeys0, comps, wires) ==
    [ all_pins |->
        Flatten([i \in 1..Len(comps) |->
                   IF comps[i][1] = "ground" THEN << comps[i][2] >>
                   ELSE get_component_pins(comps[i][1], comps[i][2])]),
      ground_keys |->
        {comps[i][2] : i \in {j \in 1..Len(comps) : comps[j][1] = "ground"}} ]

\* _collect_all_pins keeping only the last ground's key (assignment for add)
_collect_all_pins_OneGround(pins0, gkeys0, comps, wires) ==
    LET gi == {j \in 1..Len(comps) : comps[j][1] = "ground"}
    IN [ all_pins |->
           Flatten([i \in 1..Len(comps) |->
                      IF comps[i][1] = "ground" THEN << comps[i][2] >>
                      ELSE get_component_pins(comps[i][1], comps[i][2])])
           \o Flatten([i \in 1..Len(wires) |-> << wires[i][1], wires[i][2] >>]),
         ground_keys |->
           IF gi = {} THEN {}
           ELSE {comps[CHOOSE j \in gi : \A k \in gi : k <= j][2]} ]

\* all_pins and ground_keys as _collect_all_pins leaves them; both are cleared
\* first, so what they held (pins0, gkeys0) is dropped
_collect_all_pins(pins0, gkeys0, comps, wires) ==
    LET cleared_pins == <<>>
        cleared_keys == {}
    IN [ all_pins |->
           cleared_pins
           \o Flatten([i \in 1..Len(comps) |->
                         IF comps[i][1] = "ground" THEN << comps[i][2] >>
                         ELSE get_component_pins(comps[i][1], comps[i][2])])
           \o Flatten([i \in 1..Len(wires) |-> << wires[i][1], wires[i][2] >>]),
         ground_keys |->
           cleared_keys
           \cup {comps[i][2] : i \in {j \in 1..Len(comps) : comps[j][1] = "ground"}} ]

\* the reset left out
ResetNodeTables_Skipped(nds, nnn) == [nodes |-> nds, next_node_num |-> nnn]

\* `self.nodes.clear(); self.next_node_num = 1`
ResetNodeTables(nds, nnn) == [nodes |-> <<>>, next_node_num |-> 1]

RECURSIVE CreatePass(_, _, _, _, _, _)
\* `for p in self.all_pins: self._get_node(p, is_new_pin=True)` from pins[i] on
CreatePass(cand, gkeys, pins, i, nds, nnn) ==
    IF i > Len(pins) THEN [nodes |-> nds, next_node_num |-> nnn]
    ELSE LET r == _get_node(cand, gkeys, nds, nnn, pins[i], TRUE)
         IN CreatePass(cand, gkeys, pins, i + 1, r.nodes, r.next_node_num)

\* wire_adj.setdefault(a, set()).add(b)
SetDefaultAdd(adj, a, b) ==
    IF \E i \in 1..Len(adj) : adj[i][1] = a
    THEN [i \in 1..Len(adj) |->
            IF adj[i][1] = a THEN <<a, adj[i][2] \cup {b}>> ELSE adj[i]]
    ELSE Append(adj, <<a, {b}>>)

add(adj, a, b) == SetDefaultAdd(SetDefaultAdd(adj, a, b), b, a)

RECURSIVE BuildWireAdj(_, _, _, _, _, _, _)
\* `for a, b in self.canvas.lines: ...` from wires[i] on
BuildWireAdj(cand, wires, gkeys, nds, nnn, i, adj) ==
    IF i > Len(wires) THEN adj
    ELSE LET n1 == Lookup(cand, gkeys, nds, nnn, wires[i][1])
             n2 == Lookup(cand, gkeys, nds, nnn, wires[i][2])
         IN BuildWireAdj(cand, wires, gkeys, nds, nnn, i + 1,
                         IF n1 # NoNode /\ n2 # NoNode THEN add(adj, n1, n2) ELSE adj)

AdjOf(adj, n) == (CHOOSE i \in 1..Len(adj) : adj[i][1] = n)
Neighbours(adj, n) == adj[AdjOf(adj, n)][2]

\* the traversal stopping at its start node: no neighbour is pushed
Traverse_NoPush(adj, stack, visited, g) ==
    [visited |-> visited \cup {Last(stack)}, g |-> << Last(stack) >>]

RECURSIVE Traverse(_, _, _, _)
\* the `while stack:` loop; a set is iterated in ascending order (the order in
\* which neighbours are pushed changes the order of g, never its members)
Traverse(adj, stack, visited, g) ==
    IF stack = <<>> THEN [visited |-> visited, g |-> g]
    ELSE LET cur == Last(stack) IN
         IF cur \in visited THEN Traverse(adj, Front(stack), visited, g)
         ELSE LET v2 == visited \cup {cur}
              IN Traverse(adj,
                          Front(stack) \o SortedSeq(Neighbours(adj, cur) \ v2),
                          v2, Append(g, cur))

RECURSIVE FindGroups_Revisit(_, _, _, _)
\* the outer loop without its visited set: a traversal from every key
FindGroups_Revisit(adj, i, visited, gs) ==
    IF i > Len(adj) THEN gs
    ELSE FindGroups_Revisit(adj, i + 1, visited,
                            Append(gs, Traverse(adj, << adj[i][1] >>, {}, <<>>).g))

RECURSIVE FindGroups(_, _, _, _)
\* `for n in wire_adj:` from the i-th key on
FindGroups(adj, i, visited, gs) ==
    IF i > Len(adj) THEN gs
    ELSE IF adj[i][1] \in visited THEN FindGroups(adj, i + 1, visited, gs)
    ELSE LET t == Traverse(adj, << adj[i][1] >>, visited, <<>>)
         IN FindGroups(adj, i + 1, t.visited, Append(gs, t.g))

\* merge[k] = v for every k in ks
SetAll(m, ks, v) == [k \in DOMAIN m \cup ks |-> IF k \in ks THEN v ELSE m[k]]

\* merge.get(n)
MergeGet(m, n) == IF n \in DOMAIN m THEN m[n] ELSE NoNode

RECURSIVE MergeStep1_FirstOnly(_, _, _)
\* Step 1 testing only the first member of a group for ground
MergeStep1_FirstOnly(gs, i, m) ==
    IF i > Len(gs) THEN m
    ELSE MergeStep1_FirstOnly(gs, i + 1,
                    IF gs[i][1] = 0 THEN SetAll(m, Range(gs[i]), 0) ELSE m)

RECURSIVE MergeStep1(_, _, _)
\* Step 1: any group touching ground -> entire group = 0
MergeStep1(gs, i, m) ==
    IF i > Len(gs) THEN m
    ELSE MergeStep1(gs, i + 1,
                    IF \E j \in 1..Len(gs[i]) : gs[i][j] = 0
                    THEN SetAll(m, Range(gs[i]), 0) ELSE m)

RECURSIVE MergeStep2_NoIncrement(_, _, _, _)
\* Step 2 without `next_id += 1`
MergeStep2_NoIncrement(gs, i, m, next_id) ==
    IF i > Len(gs) THEN [merge |-> m, next_id |-> next_id]
    ELSE IF \E j \in 1..Len(gs[i]) : MergeGet(m, gs[i][j]) = 0
    THEN MergeStep2_NoIncrement(gs, i + 1, m, next_id)
    ELSE MergeStep2_NoIncrement(gs, i + 1, SetAll(m, Range(gs[i]), next_id), next_id)

RECURSIVE MergeStep2_PerMember(_, _, _, _)
\* Step 2 advancing next_id once per member of a group
MergeStep2_PerMember(gs, i, m, next_id) ==
    IF i > Len(gs) THEN [merge |-> m, next_id |-> next_id]
    ELSE IF \E j \in 1..Len(gs[i]) : MergeGet(m, gs[i][j]) = 0
    THEN MergeStep2_PerMember(gs, i + 1, m, next_id)
    ELSE MergeStep2_PerMember(gs, i + 1, SetAll(m, Range(gs[i]), next_id),
                              next_id + Len(gs[i]))

RECURSIVE MergeStep2(_, _, _, _)
\* Step 2: ids for the non-ground groups; returns merge and next_id
MergeStep2(gs, i, m, next_id) ==
    IF i > Len(gs) THEN [merge |-> m, next_id |-> next_id]
    ELSE IF \E j \in 1..Len(gs[i]) : MergeGet(m, gs[i][j]) = 0
    THEN MergeStep2(gs, i + 1, m, next_id)
    ELSE MergeStep2(gs, i + 1, SetAll(m, Range(gs[i]), next_id), next_id + 1)

RECURSIVE MergeStep3_NoIncrement(_, _, _, _, _)
\* Step 3 never advancing next_id
MergeStep3_NoIncrement(nds, gkeys, i, m, next_id) ==
    IF i > Len(nds) THEN m
    ELSE IF nds[i][2] \in DOMAIN m
    THEN MergeStep3_NoIncrement(nds, gkeys, i + 1, m, next_id)
    ELSE MergeStep3_NoIncrement(nds, gkeys, i + 1,
                                SetAll(m, {nds[i][2]}, next_id), next_id)

RECURSIVE MergeStep3(_, _, _, _, _)
\* Step 3: the nodes no wire touches
MergeStep3(nds, gkeys, i, m, next_id) ==
    IF i > Len(nds) THEN m
    ELSE IF nds[i][2] \in DOMAIN m THEN MergeStep3(nds, gkeys, i + 1, m, next_id)
    ELSE IF nds[i][1] \in gkeys
    THEN MergeStep3(nds, gkeys, i + 1, SetAll(m, {nds[i][2]}, 0), next_id)
    ELSE MergeStep3(nds, gkeys, i + 1, SetAll(m, {nds[i][2]}, next_id), next_id + 1)

EmptyMerge == [k \in {} |-> 0]

\* the merge stage numbering the untouched nodes before the groups
BuildMerge_SingletonsFirst(gs, nds, gkeys) ==
    LET s1 == MergeStep1(gs, 1, EmptyMerge)
        wired == UNION {Range(gs[i]) : i \in 1..Len(gs)}
        untouched == SelectSeq(nds, LAMBDA e : e[2] \notin wired)
        s3 == MergeStep3(untouched, gkeys, 1, s1, 1)
    IN MergeStep2(gs, 1, s3, Len(untouched) + 1).merge

BuildMerge(gs, nds, gkeys) ==
    LET s1 == MergeStep1(gs, 1, EmptyMerge)
        s2 == MergeStep2(gs, 1, s1, 1)
    IN MergeStep3(nds, gkeys, 1, s2.merge, s2.next_id)

Prefix(comp) ==
    CASE comp = "resistor" -> "R" [] comp = "battery" -> "V"
      [] comp = "capacitor" -> "C" [] comp = "inductor" -> "L"

DefaultValue(comp) ==
    CASE comp = "resistor" -> "100" [] comp = "battery" -> "5"
      [] comp = "capacitor" -> "1e-6" [] comp = "inductor" -> "1e-3"

\* values.get(comp, default): the lookup keyed by kind instead of prefix
ValuesGet_ByKind(vals, comp) ==
    IF comp \in DOMAIN vals THEN vals[comp] ELSE DefaultValue(comp)

\* values.get(prefix, default)
ValuesGet(vals, comp) ==
    IF Prefix(comp) \in DOMAIN vals THEN vals[Prefix(comp)] ELSE DefaultValue(comp)

\* f"{prefix}{counts[comp]} {n1} {n2} {val}"
FormatLine(prefix, count, n1, n2, val) ==
    prefix \o ToString(count) \o " " \o ToString(n1) \o " " \o ToString(n2) \o " " \o val

ZeroCounts == [k \in TwoTerminal |-> 0]

RECURSIVE Serialize_DropShorted(_, _, _, _, _, _, _, _, _, _)
\* the serializer skipping a shorted component instead of raising
Serialize_DropShorted(comps, cand, gkeys, nds, nnn, m, vals, i, counts, netlist) ==
    IF i > Len(comps) THEN [status |-> "ok", text |-> Join(netlist)]
    ELSE IF comps[i][1] \in Meters \/ comps[i][1] = "ground"
    THEN Serialize_DropShorted(comps, cand, gkeys, nds, nnn, m, vals, i + 1, counts, netlist)
    ELSE LET comp == comps[i][1]
             pins == get_component_pins(comp, comps[i][2])
             r1 == Lookup(cand, gkeys, nds, nnn, pins[1])
             r2 == Lookup(cand, gkeys, nds, nnn, pins[2])
         IN IF r1 \notin DOMAIN m THEN [status |-> "keyerror", key |-> r1]
            ELSE IF r2 \notin DOMAIN m THEN [status |-> "keyerror", key |-> r2]
            ELSE IF m[r1] = m[r2]
            THEN Serialize_DropShorted(comps, cand, gkeys, nds, nnn, m, vals, i + 1,
                                       counts, netlist)
            ELSE LET c2 == [counts EXCEPT ![comp] = @ + 1]
                 IN Serialize_DropShorted(comps, cand, gkeys, nds, nnn, m, vals, i + 1, c2,
                              Append(netlist,
                                     FormatLine(Prefix(comp), c2[comp], m[r1], m[r2],
                                                ValuesGet(vals, comp))))

\* every line terminated by a newline instead of joined
ReturnText_TrailingNewline(netlist) ==
    [status |-> "ok", text |-> Join(netlist) \o "\n"]

\* `return "\n".join(netlist)`
ReturnText(netlist) == [status |-> "ok", text |-> Join(netlist)]

RECURSIVE Serialize(_, _, _, _, _, _, _, _, _, _)
\* `for comp, pos in self.canvas.components:` from comps[i] on.  The outcome is
\* the text returned, the ValueError raised, or the KeyError of a failed merge[...]
Serialize(comps, cand, gkeys, nds, nnn, m, vals, i, counts, netlist) ==
    IF i > Len(comps) THEN ReturnText(netlist)
    ELSE IF comps[i][1] \in Meters \/ comps[i][1] = "ground"
    THEN Serialize(comps, cand, gkeys, nds, nnn, m, vals, i + 1, counts, netlist)
    ELSE LET comp == comps[i][1]
             pins == get_component_pins(comp, comps[i][2])
             r1 == Lookup(cand, gkeys, nds, nnn, pins[1])
             r2 == Lookup(cand, gkeys, nds, nnn, pins[2])
         IN IF r1 \notin DOMAIN m THEN [status |-> "keyerror", key |-> r1]
            ELSE IF r2 \notin DOMAIN m THEN [status |-> "keyerror", key |-> r2]
            ELSE IF m[r1] = m[r2]
            THEN [status |-> "shorted", comp |-> comp, node |-> m[r1]]
            ELSE LET c2 == [counts EXCEPT ![comp] = @ + 1]
                 IN Serialize(comps, cand, gkeys, nds, nnn, m, vals, i + 1, c2,
                              Append(netlist,
                                     FormatLine(Prefix(comp), c2[comp], m[r1], m[r2],
                                                ValuesGet(vals, comp))))

\* generate_netlist(values) on a generator holding nds0, nnn0, pins0, gkeys0: the
\* generator's fields and the locals as the call leaves them, and its outcome
generate_netlist(comps, wires, nds0, nnn0, pins0, gkeys0, vals) ==
    LET cand == SnapCandidates(comps, wires)
        reset == ResetNodeTables(nds0, nnn0)
        col == _collect_all_pins(pins0, gkeys0, comps, wires)
        cp == CreatePass(cand, col.ground_keys, col.all_pins, 1,
                         reset.nodes, reset.next_node_num)
        adj == BuildWireAdj(cand, wires, col.ground_keys, cp.nodes,
                            cp.next_node_num, 1, <<>>)
        gs == FindGroups(adj, 1, {}, <<>>)
        m == BuildMerge(gs, cp.nodes, col.ground_keys)
    IN [ nodes |-> cp.nodes, next_node_num |-> cp.next_node_num,
         all_pins |-> col.all_pins, ground_keys |-> col.ground_keys,
         wire_adj |-> adj, groups |-> gs, merge |-> m,
         result |-> Serialize(comps, cand, col.ground_keys, cp.nodes,
                              cp.next_node_num, m, vals, 1, ZeroCounts, <<>>) ]

----------------------------------------------------------------------------
(* Bounds and input sets *)

MaxItems == 3        \* components plus wires of a drawn layout
MaxEdits == 3        \* canvas edits on one behaviour
MaxCalls == 2        \* generate_netlist calls on one behaviour

\* the components a layout is drawn from: each kind on a grid anchor, chosen so
\* that pins coincide (resistor/battery), lie within grid_size of each other
\* (voltmeter/ammeter pins next to the resistor's), sit on a ground anchor
\* (voltmeter pin (0,0)) or differ by exactly grid_size (capacitor/inductor rows)
Placements ==
    { <<"resistor", <<40, 0>>>>, <<"battery", <<40, 0>>>>,
      <<"capacitor", <<0, 0>>>>, <<"inductor", <<0, 20>>>>,
      <<"voltmeter", <<40, 0>>>>, <<"ammeter", <<40, 0>>>>,
      <<"ground", <<0, 0>>>>, <<"ground", <<80, 0>>>> }

\* the wires a layout draws from: between the pin positions of the resistor
\* and battery ((10,0), (70,0)), the ground anchors and meter pins ((0,0),
\* (80,0)), and three points far from every pin ((140,0), (200,0), (260,0))
WireChoices ==
    { << <<0, 0>>, <<70, 0>> >>, << <<70, 0>>, <<0, 0>> >>,
      << <<10, 0>>, <<70, 0>> >>, << <<70, 0>>, <<80, 0>> >>,
      << <<0, 0>>, <<10, 0>> >>, << <<80, 0>>, <<0, 0>> >>,
      << <<140, 0>>, <<200, 0>> >>, << <<70, 0>>, <<140, 0>> >>,
      << <<10, 0>>, <<260, 0>> >> }

\* mouse input of the canvas: tool and press position of a placement, press and
\* release positions of a wire, delete clicks, double-click and drop positions
PlaceInputs ==
    { <<"resistor", <<45, 5>>>>, <<"voltmeter", <<45, 5>>>>, <<"ground", <<5, 5>>>> }
WireClicks == { <<2, 1>>, <<12, 3>>, <<68, 2>> }
DeleteClicks == { <<40, 0>> }
DragInputs == { << <<45, 5>>, <<5, 25>> >> }

\* positions the mouse hovers at: between the resistor's pins, 50 from (70,0),
\* midway between (70,0) and (140,0), left of every pin, off the grid, far away
HoverPoints ==
    { <<40, 0>>, <<120, 0>>, <<105, 0>>, <<-20, 0>>, <<35, 10>>, <<300, 100>> }

\* the `values` dicts a caller passes
ValueMaps ==
    { [k \in {} |-> ""],
      [k \in {"R", "V", "C", "L"} |->
          CASE k = "R" -> "220" [] k = "V" -> "9" [] k = "C" -> "2e-6" [] k = "L" -> "5e-3"] }

SeqsOf(S, n) == UNION { [1..k -> S] : k \in 0..n }

----------------------------------------------------------------------------
(* State machine *)

NoResult == [status |-> "none"]

\* NetlistGenerator.__init__ and a call-free history
FreshGenerator ==
    /\ nodes = <<>>
    /\ next_node_num = 1
    /\ all_pins = <<>>
    /\ ground_keys = {}
    /\ wire_adj = <<>>
    /\ groups = <<>>
    /\ merge = EmptyMerge
    /\ values = [k \in {} |-> ""]
    /\ result = NoResult
    /\ netlist_file = <<>>
    /\ hover_pos = None
    /\ _hover_pin = None
    /\ edits = 0
    /\ calls = 0

\* CircuitCanvas.__init__, NetlistGenerator.__init__
Init ==
    /\ components = <<>>
    /\ lines = <<>>
    /\ FreshGenerator

\* a canvas the user has drawn (components on grid anchors, wires between points
\* that were pins when the wire was drawn) and a generator not yet called
InitLayout ==
    /\ \E nc \in 0..MaxItems :
          /\ components \in [1..nc -> Placements]
          /\ lines \in SeqsOf(WireChoices, MaxItems - nc)
    /\ FreshGenerator

----------------------------------------------------------------------------
(* Canvas edits (CircuitCanvas mouse handlers, MainWindow.clear_canvas) *)

\* (v // grid) * grid
SnapToGrid(p) == << (p[1] \div grid_size) * grid_size, (p[2] \div grid_size) * grid_size >>

\* QRect(left, top, w, h).contains(p)
RectContains(left, top, w, h, p) ==
    /\ left <= p[1] /\ p[1] <= left + w - 1
    /\ top <= p[2] /\ p[2] <= top + h - 1

\* the topmost component whose square of the given half-width holds p, or 0
TopmostAt(comps, half, p) ==
    LET hit == {i \in 1..Len(comps) :
                  RectContains(comps[i][2][1] - half, comps[i][2][2] - half,
                               2 * half, 2 * half, p)}
    IN IF hit = {} THEN 0 ELSE CHOOSE i \in hit : \A j \in hit : j <= i

RemoveAt(s, i) == SubSeq(s, 1, i - 1) \o SubSeq(s, i + 1, Len(s))

DeleteThreshold == 20

\* point_to_line_distance(p, a, b) < threshold, in exact integer arithmetic:
\* the distance to the nearer end where the projection falls outside the
\* segment, else the distance to the line
NearLine(p, a, b) ==
    LET dx == b[1] - a[1]
        dy == b[2] - a[2]
        l2 == dx * dx + dy * dy
        dot == (p[1] - a[1]) * dx + (p[2] - a[2]) * dy
        cross == (p[1] - a[1]) * dy - (p[2] - a[2]) * dx
        da2 == (p[1] - a[1]) * (p[1] - a[1]) + (p[2] - a[2]) * (p[2] - a[2])
        db2 == (p[1] - b[1]) * (p[1] - b[1]) + (p[2] - b[2]) * (p[2] - b[2])
        t2 == DeleteThreshold * DeleteThreshold
    IN IF l2 = 0 \/ dot <= 0 THEN da2 < t2
       ELSE IF dot >= l2 THEN db2 < t2
       ELSE cross * cross < t2 * l2

Edit == edits < MaxEdits /\ edits' = edits + 1

GeneratorUnchanged ==
    UNCHANGED <<nodes, next_node_num, all_pins, ground_keys, wire_adj, groups,
                merge, values, result, netlist_file, calls>>

HoverUnchanged == UNCHANGED <<hover_pos, _hover_pin>>

\* mousePressEvent + mouseReleaseEvent with a component tool selected
PlaceComponent(kind, press) ==
    /\ Edit
    /\ kind \in Kinds
    /\ Truthy(press)
    /\ components' = Append(components, <<kind, SnapToGrid(press)>>)
    /\ UNCHANGED lines
    /\ GeneratorUnchanged
    /\ HoverUnchanged

\* mousePressEvent, mouseMoveEvent to `release`, mouseReleaseEvent with the
\* wire tool selected
PlaceWire(press, release) ==
    /\ Edit
    /\ Truthy(press)
    /\ LET hover == find_nearest_pin(components, lines, release)
           rubber_end == IF Truthy(hover) THEN hover ELSE release
           start_snap == find_nearest_pin(components, lines, press)
           end_snap == find_nearest_pin(components, lines, rubber_end)
       IN /\ start_snap # None
          /\ end_snap # None
          /\ start_snap # end_snap
          /\ lines' = Append(lines, <<start_snap, end_snap>>)
    /\ UNCHANGED components
    /\ GeneratorUnchanged
    /\ _hover_pin' = None     \* cleared on release
    /\ UNCHANGED hover_pos

\* mousePressEvent with the delete tool: delete_at_point(click)
DeleteAtPoint(click) ==
    /\ Edit
    /\ LET c == TopmostAt(components, 50, click)
           near == {i \in 1..Len(lines) : NearLine(click, lines[i][1], lines[i][2])}
       IN IF c # 0
          THEN components' = RemoveAt(components, c) /\ UNCHANGED lines
          ELSE /\ near # {}
               /\ lines' = RemoveAt(lines, Min(near))
               /\ UNCHANGED components
    /\ GeneratorUnchanged
    /\ HoverUnchanged

\* mouseDoubleClickEvent at dbl, mouseMoveEvent to drop, mouseReleaseEvent
MoveComponent(dbl, drop) ==
    /\ Edit
    /\ LET c == TopmostAt(components, 25, dbl)
       IN /\ c # 0
          /\ LET pos == components[c][2]
                  drag_offset == <<dbl[1] - pos[1], dbl[2] - pos[2]>>
                  centre == <<drop[1] - drag_offset[1], drop[2] - drag_offset[2]>>
             IN components' = [components EXCEPT ![c] = <<components[c][1], SnapToGrid(centre)>>]
    /\ UNCHANGED lines
    /\ GeneratorUnchanged
    /\ HoverUnchanged

\* MainWindow.clear_canvas
ClearCanvas ==
    /\ Edit
    /\ components' = <<>>
    /\ lines' = <<>>
    /\ GeneratorUnchanged
    /\ HoverUnchanged

\* MainWindow.run_simulation from its call of generate_netlist(vals) on: a
\* non-empty netlist is written to temp_circuit.net, an empty one or an error
\* leaves the file as it was
GenerateNetlist(vals) ==
    /\ calls < MaxCalls
    /\ \E g \in {generate_netlist(components, lines, nodes, next_node_num,
                                 all_pins, ground_keys, vals)} :
          /\ nodes' = g.nodes
          /\ next_node_num' = g.next_node_num
          /\ all_pins' = g.all_pins
          /\ ground_keys' = g.ground_keys
          /\ wire_adj' = g.wire_adj
          /\ groups' = g.groups
          /\ merge' = g.merge
          /\ result' = g.result
          /\ netlist_file' = IF g.result.status = "ok" /\ g.result.text # ""
                              THEN << g.result.text >>
                              ELSE netlist_file
    /\ values' = vals
    /\ calls' = calls + 1
    /\ UNCHANGED <<components, lines, edits>>
    /\ HoverUnchanged

\* mouseMoveEvent to p with no button held, nothing dragged and no wire begun:
\* the hover highlight
Hover(p) ==
    /\ hover_pos' = p
    /\ _hover_pin' = find_nearest_pin(components, lines, p)
    /\ UNCHANGED <<components, lines, edits>>
    /\ GeneratorUnchanged

\* the first call on a drawn layout
NextLayout == \E vals \in ValueMaps : calls = 0 /\ GenerateNetlist(vals)

SpecLayout == InitLayout /\ [][NextLayout]_vars

Next ==
    \/ \E in \in PlaceInputs : PlaceComponent(in[1], in[2])
    \/ \E p \in WireClicks, r \in WireClicks : PlaceWire(p, r)
    \/ \E c \in DeleteClicks : DeleteAtPoint(c)
    \/ \E d \in DragInputs : MoveComponent(d[1], d[2])
    \/ ClearCanvas
    \/ \E vals \in ValueMaps : GenerateNetlist(vals)

Spec == Init /\ [][Next]_vars

\* the mouse moved over a drawn layout
NextHover == \E p \in HoverPoints : Hover(p)

SpecHover == InitLayout /\ [][NextHover]_vars

----------------------------------------------------------------------------
(* Vocabulary of the properties.  In SpecLayout the canvas is not edited   *)
(* after the call, so once Called holds the generator's fields and the     *)
(* recorded locals are those of the call on the current canvas.            *)

Called == result.status # "none"

\* every electrical point of the canvas: component pins, ground anchors, wire ends
Points == Range(SnapCandidates(components, lines))

GroundAnchors == {components[i][2] : i \in {j \in 1..Len(components) : components[j][1] = "ground"}}

\* pins of the components that are not grounds
NonGroundPins ==
    UNION { Range(get_component_pins(components[i][1], components[i][2])) :
              i \in {j \in 1..Len(components) : components[j][1] # "ground"} }

\* the raw node id a lookup-only _get_node(p) returns after the call
RawOf == [p \in Points |->
            Lookup(SnapCandidates(components, lines), ground_keys, nodes, next_node_num, p)]

\* the final node of a point: merge[_get_node(p)], NoNode where merge has no such key
FinalIn(raw, p) == IF raw[p] \in DOMAIN merge THEN merge[raw[p]] ELSE NoNode

\* one step along the wires from any point of S (wires sharing that exact endpoint)
WireStep(S) ==
    {lines[i][2] : i \in {j \in 1..Len(lines) : lines[j][1] \in S}}
    \cup {lines[i][1] : i \in {j \in 1..Len(lines) : lines[j][2] \in S}}

RECURSIVE WireClosure(_)
WireClosure(S) == LET T == S \cup WireStep(S) IN IF T = S THEN S ELSE WireClosure(T)

\* the points joined to p by a path of one or more wires
WirePath(p) == WireClosure(WireStep({p}))

\* the same on raw node ids: a wire joins the raw nodes of its two endpoints
RawStep(raw, S) ==
    {raw[lines[i][2]] : i \in {j \in 1..Len(lines) : raw[lines[j][1]] \in S}}
    \cup {raw[lines[i][1]] : i \in {j \in 1..Len(lines) : raw[lines[j][2]] \in S}}

RECURSIVE RawClosure(_, _)
RawClosure(raw, S) ==
    LET T == S \cup RawStep(raw, S) IN IF T = S THEN S ELSE RawClosure(raw, T)

\* the raw nodes that are an endpoint of some wire
WiredRaws(raw) == UNION {{raw[lines[i][1]], raw[lines[i][2]]} : i \in 1..Len(lines)}

----------------------------------------------------------------------------
(* C2 *)

\* C2: every point joined to a ground anchor by a path of wires (consecutive
\* wires sharing an endpoint) has final node 0 after generate_netlist
C2_GroundPathIsZero ==
    Called =>
        \A raw \in {RawOf} :
        \A g \in GroundAnchors : \A p \in WirePath(g) : FinalIn(raw, p) = 0

\* a ground anchor with a point two wires away (not directly wired) resolved to 0
C2_Witness ==
    /\ Called
    /\ \E raw \in {RawOf} :
       \E g \in GroundAnchors : \E p \in WirePath(g) \ (WireStep({g}) \cup {g}) :
          FinalIn(raw, p) = 0

----------------------------------------------------------------------------
(* C3 *)

\* pins of all components (a ground's pin is its anchor)
ComponentPins ==
    UNION { Range(get_component_pins(components[i][1], components[i][2])) :
              i \in 1..Len(components) }

\* C3 as stated: two pins not joined by any chain of wires and not both ground
\* pins have different final nodes
C3_Original ==
    Called =>
        \A raw \in {RawOf} :
        \A p \in ComponentPins : \A q \in ComponentPins \ {p} :
            (q \notin WirePath(p) /\ ~(p \in GroundAnchors /\ q \in GroundAnchors))
                => FinalIn(raw, p) # FinalIn(raw, q)

\* C3, amended: two pins with different raw node ids whose raw nodes are not
\* joined by a chain of wires never share a final node id
C3_DistinctRawDistinctFinal ==
    Called =>
        \A raw \in {RawOf} :
        \A p \in ComponentPins : \A q \in ComponentPins :
            (raw[p] # raw[q] /\ raw[q] \notin RawClosure(raw, {raw[p]}))
                => FinalIn(raw, p) # FinalIn(raw, q)

\* two pins in two different wired groups, neither grounded, with different ids
C3_Witness ==
    /\ Called
    /\ \E raw \in {RawOf} :
       \E p \in ComponentPins : \E q \in ComponentPins :
          /\ raw[p] # raw[q] /\ raw[q] \notin RawClosure(raw, {raw[p]})
          /\ {raw[p], raw[q]} \subseteq WiredRaws(raw)
          /\ FinalIn(raw, p) >= 1 /\ FinalIn(raw, q) >= 1
          /\ FinalIn(raw, p) # FinalIn(raw, q)

----------------------------------------------------------------------------
(* C4 *)

PinsOfComponent(i) == get_component_pins(components[i][1], components[i][2])

\* component i is a resistor, battery, capacitor or inductor whose two pins are
\* joined by the layout's only wire
Bridged(i) ==
    /\ components[i][1] \in TwoTerminal
    /\ Len(lines) = 1
    /\ {lines[1][1], lines[1][2]} = Range(PinsOfComponent(i))

\* C4 as stated: the call fails with the short-circuit error naming that
\* component and the shared node
C4_Original ==
    Called =>
        \A raw \in {RawOf} :
        \A i \in 1..Len(components) :
            Bridged(i) =>
                /\ result.status = "shorted"
                /\ result.comp = components[i][1]
                /\ result.node = FinalIn(raw, PinsOfComponent(i)[1])
                /\ result.node = FinalIn(raw, PinsOfComponent(i)[2])

\* the first resistor, battery, capacitor or inductor in list order whose pins
\* have the raw nodes of component i's pins
FirstOnSameNodes(raw, i) ==
    Min({j \in 1..Len(components) :
            /\ components[j][1] \in TwoTerminal
            /\ {raw[PinsOfComponent(j)[1]], raw[PinsOfComponent(j)[2]]}
                  \subseteq {raw[PinsOfComponent(i)[1]], raw[PinsOfComponent(i)[2]]}})

\* C4, amended: the call fails with the short-circuit error carrying the shared
\* node and naming the first component in list order whose pins lie on the
\* bridged component's nodes (the bridged component itself when none precedes it)
C4_BridgedIsShorted ==
    Called =>
        \A raw \in {RawOf} :
        \A i \in 1..Len(components) :
            Bridged(i) =>
                /\ result.status = "shorted"
                /\ result.comp = components[FirstOnSameNodes(raw, i)][1]
                /\ result.node = FinalIn(raw, PinsOfComponent(i)[1])
                /\ result.node = FinalIn(raw, PinsOfComponent(i)[2])
                /\ result.node >= 1

\* a bridged component behind an unshorted component of another kind: the call
\* fails naming the bridged one
C4_Witness ==
    /\ Called
    /\ \E i \in 2..Len(components) :
          /\ Bridged(i)
          /\ components[1][1] \in TwoTerminal \ {components[i][1]}
          /\ result.status = "shorted"
          /\ result.comp = components[i][1]

----------------------------------------------------------------------------
(* C5 *)

\* C5 as stated: merge has a key for the raw node of every collected pin (0 for
\* ground anchors included), and no merge[...] lookup of the serializer fails
C5_MergeTotal ==
    Called =>
        /\ \A raw \in {RawOf} : \A p \in Range(all_pins) : raw[p] \in DOMAIN merge
        /\ result.status # "keyerror"

----------------------------------------------------------------------------
(* C6 *)

\* C6 as stated: every ground pin has final node 0, and a pin of a non-ground
\* component has final node 0 only if it sits on a ground pin or is joined to
\* one by a chain of wires
C6_GroundIsZero ==
    Called =>
        \A raw \in {RawOf} :
        /\ \A g \in GroundAnchors : FinalIn(raw, g) = 0
        /\ \A p \in NonGroundPins :
              FinalIn(raw, p) = 0 => \E g \in GroundAnchors : p = g \/ p \in WirePath(g)

----------------------------------------------------------------------------
(* C7, C8 *)

\* the wire-connected groups of raw nodes, from the wires alone
RawClasses(raw) == {RawClosure(raw, {n}) : n \in WiredRaws(raw)}
NonGroundClasses(raw) == {c \in RawClasses(raw) : 0 \notin c}

\* the raw nodes no wire touches
IsolatedRaws(raw) == {nodes[i][2] : i \in 1..Len(nodes)} \ WiredRaws(raw)

\* C7: the non-zero final ids are exactly 1..k, k the number of wire-connected
\* groups without ground plus the number of raw nodes no wire touches, and all
\* members of a group share one id
C7_IdsAreOneToK ==
    Called =>
        \A raw \in {RawOf} :
        \A k \in {Cardinality(NonGroundClasses(raw)) + Cardinality(IsolatedRaws(raw))} :
           /\ {merge[n] : n \in DOMAIN merge} \ {0} = 1..k
           /\ \A c \in RawClasses(raw) : \A a \in c : \A b \in c :
                 a \in DOMAIN merge /\ b \in DOMAIN merge /\ merge[a] = merge[b]

\* a group of two raw nodes without ground next to raw nodes no wire touches
C7_Witness ==
    /\ Called
    /\ \E raw \in {RawOf} :
       /\ \E c \in NonGroundClasses(raw) : Cardinality(c) >= 2
       /\ Cardinality(IsolatedRaws(raw)) >= 2
       /\ {merge[n] : n \in DOMAIN merge} = 1..3

\* the groups without ground and the untouched raw nodes, each as a set of raw ids
NumberedUnits(raw) == NonGroundClasses(raw) \cup {{n} : n \in IsolatedRaws(raw)}

\* C8 as stated: the unit whose earliest raw node was created first (raw ids
\* count creations) gets the smaller final id
C8_Original ==
    Called =>
        \A raw \in {RawOf} : \A units \in {NumberedUnits(raw)} :
        \A X \in units : \A Y \in units :
            Min(X) < Min(Y) => merge[Min(X)] < merge[Min(Y)]

\* the raw nodes of the wire endpoints in wire-list order, a before b
EndpointRaws(raw) ==
    Flatten([i \in 1..Len(lines) |-> << raw[lines[i][1]], raw[lines[i][2]] >>])

FirstEndpoint(e, c) == Min({i \in 1..Len(e) : e[i] \in c})

\* C8, amended: groups are numbered in the order in which a member first occurs
\* as a wire endpoint in wire-list order; every group is numbered before every
\* untouched raw node; untouched raw nodes are numbered in creation order
C8_NumberingOrder ==
    Called =>
        \A raw \in {RawOf} :
        \A e \in {EndpointRaws(raw)} :
        \A classes \in {NonGroundClasses(raw)} :
        \A isolated \in {IsolatedRaws(raw)} :
        /\ \A X \in classes : \A Y \in classes :
              FirstEndpoint(e, X) < FirstEndpoint(e, Y)
                  => merge[Min(X)] < merge[Min(Y)]
        /\ \A X \in classes : \A n \in isolated : merge[Min(X)] < merge[n]
        /\ \A a \in isolated : \A b \in isolated : a < b => merge[a] < merge[b]

\* a group numbered before an untouched raw node that was created earlier, and
\* two groups numbered against their creation order
C8_Witness ==
    /\ Called
    /\ \E raw \in {RawOf} :
       \E X \in NonGroundClasses(raw) : \E Y \in NonGroundClasses(raw) :
          \E n \in IsolatedRaws(raw) :
             /\ Min(X) < Min(Y) /\ merge[Min(Y)] < merge[Min(X)]
             /\ n < Min(Y) /\ merge[Min(Y)] < merge[n]

----------------------------------------------------------------------------
(* C9, C10 *)

QualifyingIndices == {i \in 1..Len(components) : components[i][1] \in TwoTerminal}

\* the line the claim gives for component i: prefix, per-kind index counted from
\* 1 in list order, final nodes of the first and second pin, caller's value or
\* the default
ExpectedLine(raw, i) ==
    LET kind == components[i][1]
        prefix == CASE kind = "resistor" -> "R" [] kind = "battery" -> "V"
                    [] kind = "capacitor" -> "C" [] kind = "inductor" -> "L"
        default == CASE kind = "resistor" -> "100" [] kind = "battery" -> "5"
                     [] kind = "capacitor" -> "1e-6" [] kind = "inductor" -> "1e-3"
        j == Cardinality({k \in 1..i : components[k][1] = kind})
        value == IF prefix \in DOMAIN values THEN values[prefix] ELSE default
    IN prefix \o ToString(j) \o " " \o ToString(FinalIn(raw, PinsOfComponent(i)[1]))
       \o " " \o ToString(FinalIn(raw, PinsOfComponent(i)[2])) \o " " \o value

\* C9: a successful call returns exactly the expected lines of the resistors,
\* batteries, capacitors and inductors, in component-list order, joined by newlines
C9_OutputLines ==
    (Called /\ result.status = "ok") =>
        LET raw == RawOf
            idx == SortedSeq(QualifyingIndices)
        IN result.text = Join([n \in 1..Len(idx) |-> ExpectedLine(raw, idx[n])])

\* a successful call with caller values on two components of one kind and a meter
C9_Witness ==
    /\ Called /\ result.status = "ok"
    /\ DOMAIN values # {}
    /\ \E i \in QualifyingIndices : \E j \in QualifyingIndices :
          i < j /\ components[i][1] = components[j][1]
    /\ \E i \in 1..Len(components) : components[i][1] \in Meters

\* C10: with no resistor, battery, capacitor or inductor on the canvas the call
\* returns the empty string and raises nothing, whatever the wires
C10_EmptyNetlist ==
    (Called /\ QualifyingIndices = {}) => result = [status |-> "ok", text |-> ""]

\* a meter and a ground with a wire, and the empty string returned
C10_Witness ==
    /\ Called /\ QualifyingIndices = {}
    /\ \E i \in 1..Len(components) : components[i][1] \in Meters
    /\ \E i \in 1..Len(components) : components[i][1] = "ground"
    /\ Len(lines) >= 1
    /\ result = [status |-> "ok", text |-> ""]

----------------------------------------------------------------------------
(* C1 *)

\* C1: every call returns (or fails in) exactly what a newly constructed
\* NetlistGenerator does on the same components, wires and values, and leaves
\* the node table that generator would hold, whatever edits and calls came before
C1_HistoryIndependent ==
    [][calls' = calls + 1 =>
        \E f \in {generate_netlist(components', lines', <<>>, 1, <<>>, {}, values')} :
            /\ result' = f.result
            /\ nodes' = f.nodes
            /\ next_node_num' = f.next_node_num
            /\ all_pins' = f.all_pins
            /\ ground_keys' = f.ground_keys]_vars

\* a second call that failed on a short circuit drawn after an earlier call
\* had succeeded and written its netlist
C1_Witness ==
    /\ calls = 2
    /\ netlist_file # <<>>
    /\ result.status = "shorted"

----------------------------------------------------------------------------
(* Drawn scenarios *)

\* every list order of the elements of s
Orders(s) ==
    { [i \in 1..Len(s) |-> s[f[i]]] :
        f \in {g \in [1..Len(s) -> 1..Len(s)] :
                  \A i \in 1..Len(s) : \A j \in 1..Len(s) : g[i] = g[j] => i = j} }

\* every way to draw the wires of s: any list order, each wire from either end
Drawings(s) ==
    UNION { { [i \in 1..Len(o) |-> IF i \in F THEN << o[i][2], o[i][1] >> ELSE o[i]] :
                F \in SUBSET (1..Len(o)) } : o \in Orders(s) }

\* a battery at (0,0) then a resistor at ra; ground g1 wired to the battery's
\* left pin; the battery's right pin wired to the free point m and m to the
\* resistor's first pin; the resistor's second pin wired to ground g2
BatteryResistorLoop(g1, ra, m, g2) ==
    { << << <<"battery", <<0, 0>>>>, <<"resistor", ra>>, <<"ground", g1>> >>
           \o (IF g2 = g1 THEN <<>> ELSE << <<"ground", g2>> >>),
         d >> :
        d \in Drawings(<< << get_component_pins("battery", <<0, 0>>)[1], g1 >>,
                          << get_component_pins("battery", <<0, 0>>)[2], m >>,
                          << m, get_component_pins("resistor", ra)[1] >>,
                          << get_component_pins("resistor", ra)[2], g2 >> >>) }

BatteryResistorLoops ==
    UNION { UNION { BatteryResistorLoop(g1, ra, m, g2) : g2 \in { g1, <<180, 20>> } } :
            g1 \in { <<-60, 0>>, <<-40, 0>> },
            ra \in { <<100, 0>>, <<120, 40>> },
            m \in { <<50, 40>>, <<40, -40>> } }

\* the dict run_simulation passes when every input field is empty
DefaultValues ==
    [k \in {"R", "L", "C", "V"} |->
        CASE k = "R" -> "100" [] k = "L" -> "1e-3" [] k = "C" -> "1e-6" [] k = "V" -> "5"]

ScenarioValues == ValueMaps \cup {DefaultValues}

\* a resistor at ra and two grounds in any list order, ground ga wired to the
\* resistor's first pin and ground gb to its second, no wire between the grounds
TwoGroundResistor(ra, ga, gb) ==
    { << o, d >> :
        o \in Orders(<< <<"resistor", ra>>, <<"ground", ga>>, <<"ground", gb>> >>),
        d \in Drawings(<< << get_component_pins("resistor", ra)[1], ga >>,
                          << get_component_pins("resistor", ra)[2], gb >> >>) }

TwoGroundResistors ==
    UNION { UNION { TwoGroundResistor(ra, ga, gb) :
                      ga \in { <<ra[1] - 40, ra[2]>>, <<ra[1] - 60, ra[2] + 20>> },
                      gb \in { <<ra[1] + 40, ra[2]>>, <<ra[1] + 80, ra[2] - 20>> } } :
            ra \in { <<40, 0>>, <<100, 40>> } }

\* a resistor or battery at (100,0) and wires whose ends at (0,0), (10,0) and
\* (20,0) are on no pin any more (the meters, grounds and resistors they were
\* drawn from have been moved or deleted)
StrayWireLayouts ==
    { << << <<kind, <<100, 0>>>> >>, d >> :
        kind \in {"resistor", "battery"},
        d \in Drawings(<< << <<0, 0>>, <<10, 0>> >>, << <<20, 0>>, <<70, 0>> >> >>)
              \cup Drawings(<< << <<0, 0>>, <<10, 0>> >>, << <<20, 0>>, <<70, 0>> >>,
                               << <<0, 0>>, <<130, 0>> >> >>) }

Scenarios == BatteryResistorLoops \cup TwoGroundResistors \cup StrayWireLayouts

InitScenario ==
    /\ \E sc \in Scenarios : components = sc[1] /\ lines = sc[2]
    /\ FreshGenerator

\* the first call on a scenario
NextScenario == \E vals \in ScenarioValues : calls = 0 /\ GenerateNetlist(vals)

SpecScenario == InitScenario /\ [][NextScenario]_vars

----------------------------------------------------------------------------
(* C11 *)

\* some wire runs between p and q
Wired(p, q) == \E i \in 1..Len(lines) : {lines[i][1], lines[i][2]} = {p, q}

\* the layout of the scenario: battery at (0,0) first, resistor second, grounds
\* after; left battery pin wired to a ground anchor, right battery pin two
\* wires away from the resistor's first pin through a point that is no pin,
\* second resistor pin wired to a ground anchor; four wires in all
C11_Layout ==
    /\ Len(components) >= 3
    /\ components[1] = <<"battery", <<0, 0>>>>
    /\ components[2][1] = "resistor"
    /\ \A i \in 3..Len(components) : components[i][1] = "ground"
    /\ Len(lines) = 4
    /\ \E g \in GroundAnchors : Wired(PinsOfComponent(1)[1], g)
    /\ \E m \in Points \ ComponentPins :
          Wired(PinsOfComponent(1)[2], m) /\ Wired(m, PinsOfComponent(2)[1])
    /\ \E g \in GroundAnchors : Wired(PinsOfComponent(2)[2], g)

\* the caller gives no value or the default ones
ValuesAreDefaults == \A k \in DOMAIN values : values[k] = DefaultValues[k]

\* C11: on the battery-resistor scenario with default values the call returns
\* exactly the lines 'V1 0 1 5' and 'R1 1 0 100'
C11_BatteryResistorNetlist ==
    (Called /\ C11_Layout /\ ValuesAreDefaults)
        => result = [status |-> "ok", text |-> "V1 0 1 5\nR1 1 0 100"]

\* the scenario drawn with the resistor's ground wire first and two grounds,
\* called with no values, returning the two lines
C11_Witness ==
    /\ Called /\ C11_Layout
    /\ DOMAIN values = {}
    /\ Len(components) = 4
    /\ lines[1][1] \in GroundAnchors
    /\ lines[1][2] = PinsOfComponent(2)[2]
    /\ result = [status |-> "ok", text |-> "V1 0 1 5\nR1 1 0 100"]

----------------------------------------------------------------------------
(* C12 *)

ResistorIndices == {i \in 1..Len(components) : components[i][1] = "resistor"}

\* the layout of the scenario: one resistor and two grounds at different
\* anchors, each resistor pin wired to its own ground, the grounds not wired
\* to each other, two wires in all
C12_Layout ==
    /\ Len(components) = 3 /\ Len(lines) = 2
    /\ Cardinality(ResistorIndices) = 1
    /\ Cardinality(GroundAnchors) = 2
    /\ \E r \in ResistorIndices : \E ga \in GroundAnchors : \E gb \in GroundAnchors \ {ga} :
          /\ Wired(PinsOfComponent(r)[1], ga)
          /\ Wired(PinsOfComponent(r)[2], gb)
          /\ ~Wired(ga, gb)

\* C12: on the two-ground scenario both resistor pins have final node 0 and the
\* call fails with the short-circuit error
C12_TwoGroundsShort ==
    (Called /\ C12_Layout) =>
        \A raw \in {RawOf} : \A r \in ResistorIndices :
            /\ FinalIn(raw, PinsOfComponent(r)[1]) = 0
            /\ FinalIn(raw, PinsOfComponent(r)[2]) = 0
            /\ result = [status |-> "shorted", comp |-> "resistor", node |-> 0]

\* the scenario with the resistor placed between its two grounds, failed on
\* node 0
C12_Witness ==
    /\ Called /\ C12_Layout
    /\ components[2][1] = "resistor"
    /\ result = [status |-> "shorted", comp |-> "resistor", node |-> 0]

----------------------------------------------------------------------------
(* C13 *)

WireEnds == UNION {{lines[i][1], lines[i][2]} : i \in 1..Len(lines)}

\* component i is a resistor, battery, capacitor or inductor none of whose pins
\* is a wire endpoint or a ground anchor
Unwired(i) ==
    /\ components[i][1] \in TwoTerminal
    /\ Range(PinsOfComponent(i)) \cap (WireEnds \cup GroundAnchors) = {}

\* C13 as stated: the call succeeds and each pin of an unwired component has a
\* positive final node that no pin of any other component has
C13_Original ==
    Called =>
        \A raw \in {RawOf} : \A i \in 1..Len(components) :
            Unwired(i) =>
                /\ result.status = "ok"
                /\ \A p \in Range(PinsOfComponent(i)) :
                      /\ FinalIn(raw, p) >= 1
                      /\ \A j \in (1..Len(components)) \ {i} :
                            \A q \in Range(PinsOfComponent(j)) :
                               FinalIn(raw, q) # FinalIn(raw, p)

\* component i is a resistor, battery, capacitor or inductor neither of whose
\* pins has the raw node of a wire endpoint
Floating(raw, i) ==
    /\ components[i][1] \in TwoTerminal
    /\ \A p \in Range(PinsOfComponent(i)) : raw[p] \notin WiredRaws(raw)

\* the resistors, batteries, capacitors and inductors with both pins on one
\* final node
ShortedComponents(raw) ==
    {j \in QualifyingIndices :
        FinalIn(raw, PinsOfComponent(j)[1]) = FinalIn(raw, PinsOfComponent(j)[2])}

\* C13, amended: a floating component is never the shorted one, the call
\* succeeds unless some other component is shorted, and each pin of a floating
\* component has a positive final node that no point with another raw node has
C13_FloatingIsSingleton ==
    Called =>
        \A raw \in {RawOf} : \A i \in 1..Len(components) :
            Floating(raw, i) =>
                /\ i \notin ShortedComponents(raw)
                /\ (ShortedComponents(raw) = {}) => result.status = "ok"
                /\ result.status \in {"ok", "shorted"}
                /\ \A p \in Range(PinsOfComponent(i)) :
                      /\ FinalIn(raw, p) >= 1
                      /\ \A q \in Points :
                            raw[q] # raw[p] => FinalIn(raw, q) # FinalIn(raw, p)

\* a floating component beside a wired component elsewhere, and a successful call
C13_Witness ==
    /\ Called /\ result.status = "ok"
    /\ \E raw \in {RawOf} : \E i \in QualifyingIndices : \E j \in QualifyingIndices :
          /\ Floating(raw, i)
          /\ components[j][2] # components[i][2]
          /\ \E p \in Range(PinsOfComponent(j)) : raw[p] \in WiredRaws(raw)

----------------------------------------------------------------------------
(* C14 *)

\* indices of the candidates at Manhattan distance below the tolerance from p
NearCandidates(cand, p) ==
    {i \in 1..Len(cand) : manhattanLength(cand[i], p) < snap_threshold}

\* indices of the nearest of them
NearestCandidates(cand, p) ==
    {i \in NearCandidates(cand, p) :
        \A j \in NearCandidates(cand, p) :
            manhattanLength(cand[i], p) <= manhattanLength(cand[j], p)}

\* C14: find_nearest_pin(p) is None exactly when no candidate is nearer than
\* the tolerance, and otherwise the first candidate of minimum distance in
\* iteration order (component pins in list order, then wire ends in list order)
C14_NearestPin ==
    (hover_pos # None) =>
        \A cand \in {SnapCandidates(components, lines)} :
            IF NearCandidates(cand, hover_pos) = {}
            THEN _hover_pin = None
            ELSE _hover_pin = cand[Min(NearestCandidates(cand, hover_pos))]

\* a hover with two equally near candidates at different coordinates, resolved
\* to the earlier one, and a third candidate out of tolerance
C14_Witness ==
    /\ hover_pos # None
    /\ \E cand \in {SnapCandidates(components, lines)} :
       \E i \in NearestCandidates(cand, hover_pos) :
       \E j \in NearestCandidates(cand, hover_pos) :
          /\ i < j /\ cand[i] # cand[j]
          /\ _hover_pin = cand[i]
          /\ NearCandidates(cand, hover_pos) # 1..Len(cand)

----------------------------------------------------------------------------
(* C15 *)

\* C15: two keys of merge have one final id exactly when they are the same or
\* joined by a path of wires; a key has final id 0 exactly when it is raw node 0
\* or joined to it; the traversal puts every wire-graph node into exactly one
\* group, once, and every group is a maximal connected set
C15_MergeIsReachability ==
    Called =>
        \A raw \in {RawOf} : \A visits \in {Flatten(groups)} :
            /\ \A a \in DOMAIN merge : \A b \in DOMAIN merge :
                  (merge[a] = merge[b]) <=> (b \in RawClosure(raw, {a}))
            /\ \A a \in DOMAIN merge :
                  (merge[a] = 0) <=> (0 \in RawClosure(raw, {a}))
            /\ Range(visits) = WiredRaws(raw)
            /\ Cardinality(Range(visits)) = Len(visits)
            /\ \A i \in 1..Len(groups) :
                  Range(groups[i]) = RawClosure(raw, {groups[i][1]})

\* two groups, one of them a chain of three raw nodes
C15_Witness ==
    /\ Called
    /\ Len(groups) >= 2
    /\ \E i \in 1..Len(groups) : Len(groups[i]) >= 3
    /\ \E a \in DOMAIN merge : \E b \in DOMAIN merge : merge[a] # merge[b]

----------------------------------------------------------------------------
(* C16 *)

RECURSIVE CreateIds(_, _, _, _, _, _)
\* the ids the create pass `for p in self.all_pins: self._get_node(p, True)`
\* returns for pins[i..], in order, starting from the tables nds, nnn
CreateIds(cand, gkeys, pins, i, nds, nnn) ==
    IF i > Len(pins) THEN <<>>
    ELSE LET r == _get_node(cand, gkeys, nds, nnn, pins[i], TRUE)
         IN << r.id >> \o CreateIds(cand, gkeys, pins, i + 1, r.nodes, r.next_node_num)

\* C16: after the create pass every lookup-only _get_node of a component pin
\* or wire endpoint returns the id the point got in the create pass, never
\* None, and leaves nodes and next_node_num as they were; every wire has its
\* edge in wire_adj
C16_LookupIsStable ==
    Called =>
        \A cand \in {SnapCandidates(components, lines)} :
        \A ids \in {CreateIds(cand, ground_keys, all_pins, 1, <<>>, 1)} :
            /\ Points \subseteq Range(all_pins)
            /\ \A k \in 1..Len(all_pins) :
                  \A look \in {_get_node(cand, ground_keys, nodes, next_node_num,
                                         all_pins[k], FALSE)} :
                     /\ look.id # NoNode
                     /\ look.id = ids[k]
                     /\ look.nodes = nodes
                     /\ look.next_node_num = next_node_num
            /\ \A i \in 1..Len(lines) :
                  \A a \in {Lookup(cand, ground_keys, nodes, next_node_num, lines[i][1])} :
                  \A b \in {Lookup(cand, ground_keys, nodes, next_node_num, lines[i][2])} :
                     a \in Neighbours(wire_adj, b) /\ b \in Neighbours(wire_adj, a)

\* a wire end that is no pin and no key of the node table, resolved to the
\* node of a nearby pin, beside a wire end that got a node of its own
C16_Witness ==
    /\ Called
    /\ \E raw \in {RawOf} : \E p \in WireEnds \ ComponentPins : \E q \in WireEnds \ ComponentPins :
          /\ \A i \in 1..Len(nodes) : nodes[i][1] # p
          /\ raw[p] >= 1
          /\ \E c \in ComponentPins : c # p /\ raw[c] = raw[p]
          /\ \E i \in 1..Len(nodes) : nodes[i][1] = q

----------------------------------------------------------------------------
(* C17 *)

\* the wire list with wire i drawn from its other end
FlipWire(wires, i) ==
    [j \in 1..Len(wires) |-> IF j = i THEN << wires[j][2], wires[j][1] >> ELSE wires[j]]

\* C17 as stated: with any one wire (a, b) replaced by (b, a) at the same list
\* position, generate_netlist returns the same text or fails the same way
C17_DirectionIrrelevant ==
    Called =>
        \A i \in 1..Len(lines) :
            generate_netlist(components, FlipWire(lines, i), <<>>, 1, <<>>, {},
                             values).result = result

----------------------------------------------------------------------------
(* C18 *)

\* the per-axis test of _get_node between a stored key and a point
Close(key, p) == Abs(key[1] - p[1]) < grid_size /\ Abs(key[2] - p[2]) < grid_size

\* the stored key of raw node n lies within grid_size of both p and q
SameKeyNearBoth(n, p, q) ==
    \E i \in 1..Len(nodes) :
        nodes[i][2] = n /\ Close(nodes[i][1], p) /\ Close(nodes[i][1], q)

\* C18 as stated: find_nearest_pin maps every collected pin to its own
\* coordinates, so _get_node's key is the pin itself, and two collected pins at
\* different coordinates share a raw node only through the per-axis test
C18_Original ==
    Called =>
        \A cand \in {SnapCandidates(components, lines)} : \A raw \in {RawOf} :
        \A p \in Range(all_pins) :
            /\ NearestPin(cand, p) = p
            /\ NodeKey(cand, p) = p
            /\ \A q \in Range(all_pins) \ {p} :
                  raw[p] = raw[q] => SameKeyNearBoth(raw[p], p, q)

\* C18, amended: as above, but two collected pins at different coordinates
\* also share a raw node when both are ground anchors (raw node 0)
C18_SnapKeepsPins ==
    Called =>
        \A cand \in {SnapCandidates(components, lines)} : \A raw \in {RawOf} :
        \A p \in Range(all_pins) :
            /\ NearestPin(cand, p) = p
            /\ NodeKey(cand, p) = p
            /\ \A q \in Range(all_pins) \ {p} :
                  raw[p] = raw[q] =>
                      \/ SameKeyNearBoth(raw[p], p, q)
                      \/ {p, q} \subseteq ground_keys /\ raw[p] = 0

\* two collected pins nearer than the snap tolerance with different raw nodes,
\* and two at different coordinates sharing one raw node through the per-axis test
C18_Witness ==
    /\ Called
    /\ \E raw \in {RawOf} :
          /\ \E p \in Range(all_pins) : \E q \in Range(all_pins) :
                manhattanLength(p, q) < snap_threshold /\ raw[p] # raw[q]
          /\ \E p \in Range(all_pins) : \E q \in Range(all_pins) \ {p} :
                raw[p] = raw[q] /\ raw[p] >= 1

============================================================================
